---- MODULE Spec2Model ----
(***************************************************************************)
(* Live-score cache-and-refresh pipeline of the social sports betting      *)
(* platform: Score Store (models/Score.js), Provider Adapter               *)
(* (services/sportsApiService.js), Cache Orchestrator                      *)
(* (services/scoreService.js).                                             *)
(*                                                                         *)
(* Time is in milliseconds, as Date.now() gives it, counted from a model   *)
(* epoch StartDay days before the day the run starts (TLC integers are     *)
(* 32 bit, so the Unix epoch itself is out of reach).  The process runs    *)
(* with TZ=UTC, so that Date#setHours and Date#toISOString agree on the    *)
(* day.                                                                    *)
(***************************************************************************)
EXTENDS Integers, Sequences, FiniteSets, TLC

\* ------------------------------------------------------------------ bounds
MaxTicks   == 1   \* the clock passes through the instants 0..MaxTicks
MaxFetches == 1   \* Provider Adapter calls made in one behaviour
MaxGames   == 1   \* largest slate the synthetic generator returns

\* ------------------------------------------------- constants of the program
CACHE_TTL    == 300        \* seconds
MsPerSecond  == 1000
MsPerHour    == 3600000
MsPerDay     == 86400000
LiveLimit    == 5          \* findUpcoming(sportType, 5), findRecentlyCompleted(sportType, 24, 5)
RecentHours  == 24
MaxRangeDays == 7          \* getScoresByDateRange: if (daysDiff > 7)
RetentionDays == 7         \* cleanup(): ScoreService.cleanupOldScores(7)
NoTime       == 0          \* a NULL timestamp column / a null Date
Infinity     == 2147483647 \* cacheAge of a sport that has no row
NULL         == "null"     \* a NULL text column

\* mutant of validSports: the list also admits cricket
validSportsWithCricket == {"football", "basketball", "baseball", "soccer", "hockey", "other", "cricket"}

validSports == {"football", "basketball", "baseball", "soccer", "hockey", "other"}

\* ------------------------------------------------------------------- clock
\* The instants at which operations run: steps of half a second and of
\* exactly CACHE_TTL seconds alternate, so that cache ages of 0.5 s,
\* exactly CACHE_TTL s and CACHE_TTL + 0.5 s all occur.
Offset(k) == ((k + 1) \div 2) * (MsPerSecond \div 2) + (k \div 2) * (CACHE_TTL * MsPerSecond)

\* The run starts half a second before 14:00 of the tenth day of the model epoch.
T0 == 10 * MsPerDay + 14 * MsPerHour - (MsPerSecond \div 2)

Now(k) == T0 + Offset(k)

\* date.toISOString().split('T')[0]: the day of a time
DayOf(t) == t \div MsPerDay

StartDay == DayOf(T0)

\* ------------------------------------------------------------- Score Store
\* JavaScript's `x || null` and `x || 0` on the values of a score record
OrNullTime(x) == IF x = NoTime THEN NoTime ELSE x
OrNullText(x) == IF x = "" \/ x = NULL THEN NULL ELSE x
OrZero(x)     == IF x = 0 THEN 0 ELSE x   \* scores are numbers here; 0 is the only falsy one

\* the VALUES ($1 .. $16) of the INSERT, with the column defaults
InsertedRow(scoreData, t) ==
  [ game_id        |-> scoreData.gameId,
    sport_type     |-> scoreData.sportType,
    home_team      |-> scoreData.homeTeam,
    away_team      |-> scoreData.awayTeam,
    home_team_logo |-> OrNullText(scoreData.homeTeamLogo),
    away_team_logo |-> OrNullText(scoreData.awayTeamLogo),
    home_score     |-> OrZero(scoreData.homeScore),
    away_score     |-> OrZero(scoreData.awayScore),
    status         |-> scoreData.status,
    period         |-> OrNullText(scoreData.period),
    time_remaining |-> OrNullText(scoreData.timeRemaining),
    scheduled_at   |-> scoreData.scheduledAt,
    started_at     |-> OrNullTime(scoreData.startedAt),
    completed_at   |-> OrNullTime(scoreData.completedAt),
    venue          |-> OrNullText(scoreData.venue),
    metadata       |-> scoreData.metadata,
    last_updated   |-> t,
    created_at     |-> t ]

\* mutant of UpdatedRow: the UPDATE sets every column of the INSERT
UpdatedRowAllColumns(row, scoreData, t) ==
  [ InsertedRow(scoreData, t) EXCEPT !.created_at = row.created_at ]

\* mutant of UpdatedRow: the UPDATE sets the two scores only, so the row keeps
\* the status, period and times of the writer before
UpdatedRowScoresOnly(row, scoreData, t) ==
  [ row EXCEPT !.home_score   = OrZero(scoreData.homeScore),
               !.away_score   = OrZero(scoreData.awayScore),
               !.last_updated = t ]

\* ON CONFLICT (game_id) DO UPDATE SET ...
UpdatedRow(row, scoreData, t) ==
  [ row EXCEPT !.home_score     = OrZero(scoreData.homeScore),
               !.away_score     = OrZero(scoreData.awayScore),
               !.status         = scoreData.status,
               !.period         = OrNullText(scoreData.period),
               !.time_remaining = OrNullText(scoreData.timeRemaining),
               !.started_at     = OrNullTime(scoreData.startedAt),
               !.completed_at   = OrNullTime(scoreData.completedAt),
               !.metadata       = scoreData.metadata,
               !.last_updated   = t ]

\* mutant of upsert: a plain INSERT, no ON CONFLICT clause and no UNIQUE (game_id)
upsertInsertOnly(rows, scoreData, t) ==
  rows \cup { InsertedRow(scoreData, t) }

\* Score.upsert: the table after the statement, run at time t
upsert(rows, scoreData, t) ==
  IF \E r \in rows : r.game_id = scoreData.gameId
    THEN { IF r.game_id = scoreData.gameId THEN UpdatedRow(r, scoreData, t) ELSE r : r \in rows }
    ELSE rows \cup { InsertedRow(scoreData, t) }

\* the row RETURNING gives back
upsertReturning(rows, scoreData, t) ==
  CHOOSE r \in upsert(rows, scoreData, t) : r.game_id = scoreData.gameId

\* `for (const score of apiScores) await Score.upsert(score)`
RECURSIVE upsertAll(_, _, _)
upsertAll(rows, games, t) ==
  IF games = << >> THEN rows
  ELSE upsertAll(upsert(rows, Head(games), t), Tail(games), t)

\* Score.findByGameId: the rows with that game_id (rows[0] || null is taken by the caller)
findByGameId(rows, gameId) == { r \in rows : r.game_id = gameId }

\* ORDER BY key ASC: every order the database may return (ties are unordered)
\* (key is a function on the rows)
RECURSIVE OrderedBy(_, _)
OrderedBy(S, key) ==
  IF S = {} THEN { << >> }
  ELSE UNION { { <<m>> \o rest : rest \in OrderedBy(S \ {m}, key) } :
               m \in { x \in S : \A y \in S : key[x] <= key[y] } }

\* LIMIT n
Limit(s, n) == IF Len(s) <= n THEN s ELSE SubSeq(s, 1, n)

ScheduledAtAsc(S)  == [ r \in S |-> r.scheduled_at ]
ScheduledAtDesc(S) == [ r \in S |-> 0 - r.scheduled_at ]
CompletedAtDesc(S) == [ r \in S |-> 0 - r.completed_at ]

\* mutant of findLive: WHERE status IN ('live', 'halftime')
findLiveOrHalftime(rows, sportType) ==
  LET S == { r \in rows : r.status \in {"live", "halftime"} /\ r.sport_type = sportType }
  IN  OrderedBy(S, ScheduledAtAsc(S))

\* Score.findLive(sportType)
findLive(rows, sportType) ==
  LET S == { r \in rows : r.status = "live" /\ r.sport_type = sportType }
  IN  OrderedBy(S, ScheduledAtAsc(S))

\* Score.findByDateRange(sportType, startDate, endDate)
findByDateRange(rows, sportType, startDate, endDate) ==
  LET S == { r \in rows : /\ r.sport_type = sportType
                           /\ r.scheduled_at >= startDate
                           /\ r.scheduled_at <= endDate }
  IN  OrderedBy(S, ScheduledAtAsc(S))

\* Score.findUpcoming(sportType, limit) at time t
findUpcoming(rows, sportType, limit, t) ==
  LET S == { r \in rows : /\ r.sport_type = sportType
                           /\ r.status = "scheduled"
                           /\ r.scheduled_at > t }
  IN  { Limit(s, limit) : s \in OrderedBy(S, ScheduledAtAsc(S)) }

\* Score.findRecentlyCompleted(sportType, hours, limit) at time t
findRecentlyCompleted(rows, sportType, hours, limit, t) ==
  LET S == { r \in rows : /\ r.sport_type = sportType
                           /\ r.status = "final"
                           /\ r.completed_at # NoTime
                           /\ r.completed_at >= t - hours * MsPerHour }
  IN  { Limit(s, limit) : s \in OrderedBy(S, CompletedAtDesc(S)) }

\* mutant of deleteOldRows: the DELETE goes by age alone, whatever the status
deleteOldRowsAnyStatus(rows, days, t) ==
  { r \in rows : r.scheduled_at < t - days * MsPerDay }

\* Score.deleteOld(days) at time t: the rows the DELETE removes
deleteOldRows(rows, days, t) ==
  { r \in rows : /\ r.status = "final"
                 /\ r.completed_at # NoTime
                 /\ r.completed_at < t - days * MsPerDay }

\* MAX(last_updated) ... WHERE sport_type = $1 (NoTime when no row matches)
MaxLastUpdated(rows, sportType) ==
  LET S == { r.last_updated : r \in { x \in rows : x.sport_type = sportType } }
  IN  IF S = {} THEN NoTime ELSE CHOOSE m \in S : \A x \in S : x <= m

\* Score.getCacheStatus(sportType)
getCacheStatus(rows, sportType) ==
  LET S == { r \in rows : r.sport_type = sportType }
  IN  [ total_games     |-> Cardinality(S),
        live_games      |-> Cardinality({ r \in S : r.status = "live" }),
        scheduled_games |-> Cardinality({ r \in S : r.status = "scheduled" }),
        completed_games |-> Cardinality({ r \in S : r.status = "final" }),
        last_update     |-> MaxLastUpdated(rows, sportType) ]

\* -------------------------------------------------------- Provider Adapter
\* _getTeamsBySport: the first two teams of each table; teams[sportType] || teams.football
Teams(sportType) ==
  CASE sportType = "basketball" ->
         << [name |-> "Los Angeles Lakers", city |-> "Los Angeles", league |-> "NBA", logo |-> "/logos/lakers.png"],
            [name |-> "Boston Celtics", city |-> "Boston", league |-> "NBA", logo |-> "/logos/celtics.png"] >>
    [] sportType = "baseball" ->
         << [name |-> "New York Yankees", city |-> "New York", league |-> "MLB", logo |-> "/logos/yankees.png"],
            [name |-> "Boston Red Sox", city |-> "Boston", league |-> "MLB", logo |-> "/logos/redsox.png"] >>
    [] sportType = "soccer" ->
         << [name |-> "Real Madrid", city |-> "Madrid", league |-> "La Liga", logo |-> "/logos/realmadrid.png"],
            [name |-> "Barcelona", city |-> "Barcelona", league |-> "La Liga", logo |-> "/logos/barcelona.png"] >>
    [] sportType = "hockey" ->
         << [name |-> "Montreal Canadiens", city |-> "Montreal", league |-> "NHL", logo |-> "/logos/canadiens.png"],
            [name |-> "Toronto Maple Leafs", city |-> "Toronto", league |-> "NHL", logo |-> "/logos/mapleleafs.png"] >>
    [] OTHER ->
         << [name |-> "Dallas Cowboys", city |-> "Dallas", league |-> "NFL", logo |-> "/logos/cowboys.png"],
            [name |-> "Philadelphia Eagles", city |-> "Philadelphia", league |-> "NFL", logo |-> "/logos/eagles.png"] >>

\* The values Math.random() leads to in one game: the two team indexes
\* (different), the two scores (0..34) and the index of the period.
Draw1 == [homeIndex |-> 1, awayIndex |-> 2, homeScore |-> 7, awayScore |-> 0,  period |-> 1]
Draw2 == [homeIndex |-> 2, awayIndex |-> 1, homeScore |-> 0, awayScore |-> 34, period |-> 2]
\* the draw of a fetched slate (the stored games of UsedStore were drawn as Draw1)
Draws == {Draw2}

\* _randomStatus: the statuses it can return
randomStatuses == {"scheduled", "live", "halftime", "final"}

\* _getPeriodBySport(sportType, status), k the random index
getPeriodBySport(sportType, status, k) ==
  CASE status = "scheduled" -> NULL
    [] status = "halftime"  -> "Halftime"
    [] status = "final"     -> "Final"
    [] sportType = "baseball" -> <<"1st Inning", "5th Inning">>[k]
    [] sportType = "soccer"   -> <<"1st Half", "2nd Half">>[k]
    [] sportType = "hockey"   -> <<"1st Period", "2nd Period">>[k]
    [] OTHER -> <<"1st Quarter", "2nd Quarter">>[k]

\* one element of the array _generateMockGames(sportType, date, defaultStatus) builds:
\* game number i, with the status and the draw that Math.random() gave
MockGame(sportType, date, i, randomStatus, defaultStatus, draw) ==
  LET teams         == Teams(sportType)
      status        == IF defaultStatus = "scheduled" THEN "scheduled" ELSE randomStatus
      scheduledTime == DayOf(date) * MsPerDay + (12 + i * 2) * MsPerHour
  IN  [ gameId        |-> <<sportType, DayOf(date), i>>,
        sportType     |-> sportType,
        homeTeam      |-> teams[draw.homeIndex].name,
        awayTeam      |-> teams[draw.awayIndex].name,
        homeTeamLogo  |-> teams[draw.homeIndex].logo,
        awayTeamLogo  |-> teams[draw.awayIndex].logo,
        homeScore     |-> IF status = "scheduled" THEN 0 ELSE draw.homeScore,
        awayScore     |-> IF status = "scheduled" THEN 0 ELSE draw.awayScore,
        status        |-> status,
        period        |-> getPeriodBySport(sportType, status, draw.period),
        timeRemaining |-> IF status = "live" THEN "12:34" ELSE NULL,
        scheduledAt   |-> scheduledTime,
        startedAt     |-> IF status # "scheduled" THEN scheduledTime ELSE NoTime,
        completedAt   |-> IF status = "final" THEN scheduledTime + 3 * MsPerHour ELSE NoTime,
        venue         |-> teams[draw.homeIndex].city \o " Stadium",
        metadata      |-> [league |-> teams[draw.homeIndex].league, season |-> "2024"] ]

\* gameCount: Math.floor(Math.random() * 3) + 3, that is 3..5, in the source;
\* 1..MaxGames here
MockGameCounts == 1 .. MaxGames

\* _generateMockGames(sportType, date, defaultStatus): every array it can
\* return (one draw for the whole slate, one status per game)
generateMockGames(sportType, date, defaultStatus) ==
  UNION { { [ i \in 1..n |-> MockGame(sportType, date, i - 1, st[i], defaultStatus, d) ] :
            st \in [1..n -> IF defaultStatus = "scheduled" THEN {"scheduled"} ELSE randomStatuses],
            d \in Draws } :
          n \in MockGameCounts }

\* the raw status codes of the table
StatusCodes ==
  {"NS", "LIVE", "Q1", "Q2", "HT", "Q3", "Q4", "OT", "BT", "P", "SUSP", "INT",
   "FT", "AET", "PEN", "PST", "CANC", "ABD", "AWD", "WO"}

\* mutant of statusMap: halftime is reported as live
statusMapHalftimeAsLive ==
  [ code \in StatusCodes |->
      CASE code = "NS" -> "scheduled"
        [] code \in {"LIVE", "Q1", "Q2", "HT", "Q3", "Q4", "OT", "BT", "P"} -> "live"
        [] code \in {"FT", "AET", "PEN", "AWD", "WO"} -> "final"
        [] code \in {"SUSP", "INT", "PST"} -> "postponed"
        [] code \in {"CANC", "ABD"} -> "cancelled" ]

\* statusMap of _transformNFLGame
statusMap ==
  [ code \in {"NS", "LIVE", "Q1", "Q2", "HT", "Q3", "Q4", "OT", "BT", "P", "SUSP", "INT",
              "FT", "AET", "PEN", "PST", "CANC", "ABD", "AWD", "WO"} |->
      CASE code = "NS" -> "scheduled"
        [] code \in {"LIVE", "Q1", "Q2", "Q3", "Q4", "OT", "BT", "P"} -> "live"
        [] code = "HT" -> "halftime"
        [] code \in {"FT", "AET", "PEN", "AWD", "WO"} -> "final"
        [] code \in {"SUSP", "INT", "PST"} -> "postponed"
        [] code \in {"CANC", "ABD"} -> "cancelled" ]

\* mutant of startedAtOf: startedAt is the kick-off time whatever the status
startedAtAlways(isLive, isFinal, timestampMs) == timestampMs

\* startedAt: isLive || isFinal ? new Date(apiGame.game.date.timestamp * 1000) : null
startedAtOf(isLive, isFinal, timestampMs) ==
  IF isLive \/ isFinal THEN timestampMs ELSE NoTime

\* _transformNFLGame(apiGame); apiGame is the provider's game object, flattened
transformNFLGame(apiGame) ==
  LET status  == IF apiGame.statusShort \in DOMAIN statusMap
                   THEN statusMap[apiGame.statusShort] ELSE "scheduled"
      isLive  == status \in {"live", "halftime"}
      isFinal == status = "final"
  IN  [ gameId        |-> << ToString(apiGame.id) >>,
        sportType     |-> "football",
        homeTeam      |-> apiGame.homeName,
        awayTeam      |-> apiGame.awayName,
        homeTeamLogo  |-> apiGame.homeLogo,
        awayTeamLogo  |-> apiGame.awayLogo,
        homeScore     |-> OrZero(apiGame.homeTotal),
        awayScore     |-> OrZero(apiGame.awayTotal),
        status        |-> status,
        period        |-> OrNullText(apiGame.statusLong),
        timeRemaining |-> IF isLive THEN OrNullText(apiGame.statusTimer) ELSE NULL,
        scheduledAt   |-> IF apiGame.date # NoTime THEN apiGame.date
                          ELSE apiGame.timestamp * MsPerSecond,
        startedAt     |-> startedAtOf(isLive, isFinal, apiGame.timestamp * MsPerSecond),
        completedAt   |-> IF isFinal THEN apiGame.timestamp * MsPerSecond ELSE NoTime,
        venue         |-> OrNullText(apiGame.venue),
        metadata      |-> [league |-> apiGame.league, season |-> apiGame.season] ]

\* A game object of the provider: game 401, kicked off at `hour` of day StartDay
ApiGame(code, homeTotal, awayTotal, hour) ==
  [ id |-> 401, statusShort |-> code, statusLong |-> code, statusTimer |-> "05:00",
    date |-> NoTime, timestamp |-> (StartDay * MsPerDay + hour * MsPerHour) \div MsPerSecond,
    homeName |-> "Kansas City Chiefs", awayName |-> "Green Bay Packers",
    homeLogo |-> "", awayLogo |-> "",
    homeTotal |-> homeTotal, awayTotal |-> awayTotal,
    venue |-> "Arrowhead", league |-> "NFL", season |-> "2025" ]

\* response.data.response of GET /games: what the provider may answer
ProviderResponses ==
  { << >> } \cup
  { << ApiGame(code, 3, 0, 13) >> : code \in {"NS", "Q2", "FT", "ZZ"} }

\* What the call axios.get(.../games) comes to: it throws (network error,
\* timeout, HTTP error status), or it resolves with a body whose `errors` is
\* empty, a plan restriction or another error (a rate limit), and whose
\* `response` is a list of games.
PlanError == "Free plans do not have access to this date"
RateLimitError == "Too many requests"
ProviderOutcomes ==
  { [threw |-> TRUE, errors |-> "", response |-> << >>] } \cup
  { [threw |-> FALSE, errors |-> "", response |-> r] : r \in ProviderResponses } \cup
  { [threw |-> FALSE, errors |-> e, response |-> << >>] : e \in {PlanError, RateLimitError} }

\* errorMsg.includes('Free plans')
includesFreePlans(errorMsg) == errorMsg = PlanError

\* _fetchNFLGamesFromAPI(date, status, endDate) when the provider answers
\* `outcome`: it throws, or returns an array
fetchNFLGamesFromAPI(outcome) ==
  IF outcome.threw \/ (outcome.errors # "" /\ includesFreePlans(outcome.errors))
    THEN [threw |-> TRUE, games |-> << >>]
    ELSE [threw |-> FALSE,
          games |-> [ i \in 1..Len(outcome.response) |-> transformNFLGame(outcome.response[i]) ]]

\* mutant of fetchLiveScoresFrom: no fallback, a provider failure gives an empty array
fetchLiveScoresNoFallback(real, sportType, date, outcome) ==
  IF real /\ sportType = "football"
    THEN { fetchNFLGamesFromAPI(outcome).games }
    ELSE generateMockGames(sportType, date, "live")

\* SportsAPIService.fetchLiveScores(sportType, date) when the provider answers
\* `outcome`: every array it can return (real: USE_REAL_API && API_SPORTS_KEY)
fetchLiveScoresFrom(real, sportType, date, outcome) ==
  IF real /\ sportType = "football"
    THEN LET api == fetchNFLGamesFromAPI(outcome)
         IN  IF api.threw THEN generateMockGames(sportType, date, "live") ELSE { api.games }
    ELSE generateMockGames(sportType, date, "live")

\* SportsAPIService.fetchLiveScores(sportType, date): every array it can return
fetchLiveScores(real, sportType, date) ==
  UNION { fetchLiveScoresFrom(real, sportType, date, outcome) : outcome \in ProviderOutcomes }

\* _fetchNFLGameByIdFromAPI(gameId) when the provider answers `outcome`: it
\* throws, or returns null (the empty set) or the first game of the response
fetchNFLGameByIdFromAPI(gameId, outcome) ==
  IF outcome.threw THEN [threw |-> TRUE, game |-> {}]
  ELSE IF outcome.response = << >> THEN [threw |-> FALSE, game |-> {}]
  ELSE [threw |-> FALSE, game |-> { transformNFLGame(outcome.response[1]) }]

\* SportsAPIService.fetchGameById(gameId) at time t when the provider answers
\* `outcome`: every result, null being the empty set.  gameId is the tuple
\* gameId.split('_') gives.
fetchGameByIdFrom(real, gameId, t, outcome) ==
  IF real /\ Len(gameId) = 1
    THEN LET api == fetchNFLGameByIdFromAPI(gameId, outcome)
         IN  { IF api.threw THEN {} ELSE api.game }
    ELSE LET sportType == gameId[1]
             date      == IF Len(gameId) >= 2 THEN gameId[2] * MsPerDay ELSE t
             index     == IF Len(gameId) >= 3 THEN gameId[3] ELSE 0
         IN  { IF index + 1 \in DOMAIN games THEN { games[index + 1] } ELSE {} :
               games \in generateMockGames(sportType, date, "live") }

\* the provider's answers to GET /games?id=gameId: a failure, no game, or the
\* game it has under that id
ProviderOutcomesFor(gameId) ==
  { o \in ProviderOutcomes :
      o.response # << >> => << ToString(o.response[1].id) >> = gameId }

\* SportsAPIService.fetchGameById(gameId) at time t: every result
fetchGameById(real, gameId, t) ==
  UNION { fetchGameByIdFrom(real, gameId, t, outcome) : outcome \in ProviderOutcomesFor(gameId) }

\* the mock loop of fetchUpcomingGames: the slates of days i .. days - 1, one after the other
RECURSIVE mockUpcomingGames(_, _, _, _)
mockUpcomingGames(sportType, t, i, days) ==
  IF i >= days THEN { << >> }
  ELSE { dayGames \o rest :
           dayGames \in generateMockGames(sportType, t + i * MsPerDay, "scheduled"),
           rest \in mockUpcomingGames(sportType, t, i + 1, days) }

\* SportsAPIService.fetchUpcomingGames(sportType, days) at time t when the
\* provider answers `outcome`: every array it can return
fetchUpcomingGamesFrom(real, sportType, days, t, outcome) ==
  IF real /\ sportType = "football"
    THEN LET api == fetchNFLGamesFromAPI(outcome)
         IN  IF api.threw THEN mockUpcomingGames(sportType, t, 0, days) ELSE { api.games }
    ELSE mockUpcomingGames(sportType, t, 0, days)

\* ------------------------------------------------------- Cache Orchestrator
VARIABLES
  tick,        \* index of the present instant; Date.now() is Now(tick)
  store,       \* the rows of table scores
  useRealApi,  \* USE_REAL_API && API_SPORTS_KEY, fixed when the process starts
  fetches,     \* calls of the Provider Adapter made so far
  last,        \* the operation that has just returned: arguments, Adapter calls, outcome
  updater,     \* the ScoreUpdater singleton: its fields and the calls it has begun
  paths,       \* the refreshes that are between two awaits: what each has still to upsert
  liveFetchedAt \* per sport, when the Orchestrator's last fetchLiveScores call returned

vars == <<tick, store, useRealApi, fetches, last, updater, paths, liveFetchedAt>>

\* the refresh paths that can be in flight together: one begun by a request,
\* one by the background job
PathIds == {"request", "job"}
IdlePath == [active |-> FALSE, sportType |-> "", slate |-> << >>, done |-> 0]

\* const sports of refreshAllScores
sports == <<"football", "basketball", "baseball", "soccer", "hockey">>
SportSet == { sports[i] : i \in DOMAIN sports }

\* what callers ask for
RequestSports == {"football", "cricket"}
RequestIds ==
  { <<"football", StartDay, 0>>, <<"football", StartDay, MaxGames>>,
    <<"basketball", StartDay, 0>>, <<"401">> }
CleanupDays == {1, 7}

\* mutant of isStale: a stored record never counts as stale
isStaleOnlyWhenNull(lastUpdated, t) == lastUpdated = NoTime

\* ScoreService._isStale(lastUpdated) at time t
isStale(lastUpdated, t) ==
  IF lastUpdated = NoTime THEN TRUE
  ELSE (t - lastUpdated) > CACHE_TTL * MsPerSecond

\* cacheAge of getLiveScores, in milliseconds (Infinity when there is no last_update)
cacheAgeMs(rows, sportType, t) ==
  LET cacheStatus == getCacheStatus(rows, sportType)
  IN  IF cacheStatus.last_update # NoTime THEN t - cacheStatus.last_update ELSE Infinity

\* mutants of needsRefresh: refresh on every call; only when forced; only by age
needsRefreshAlways(forceRefresh, ageMs) == TRUE
needsRefreshForcedOnly(forceRefresh, ageMs) == forceRefresh
needsRefreshByAge(forceRefresh, ageMs) == ageMs > CACHE_TTL * MsPerSecond

\* forceRefresh || cacheAge > CACHE_TTL
needsRefresh(forceRefresh, ageMs) ==
  forceRefresh \/ ageMs > CACHE_TTL * MsPerSecond

\* Math.floor(cacheAge)
floorSeconds(ageMs) == IF ageMs = Infinity THEN Infinity ELSE ageMs \div MsPerSecond

NoOp == [op |-> "none", error |-> "", calls |-> 0]

\* new ScoreUpdater(): the constructor's fields; pendingUpdate and
\* pendingCleanup are the calls of updateScores() and cleanup() that have
\* been made and have not yet run to their end; updateIntervals and
\* cleanupIntervals count the intervals that setInterval has scheduled and
\* clearInterval has not cleared (updateTimer and cleanupTimer tell whether
\* the field holds a handle)
NewUpdater ==
  [ isRunning |-> FALSE, updateTimer |-> FALSE, cleanupTimer |-> FALSE,
    lastUpdate |-> NoTime, updateCount |-> 0,
    pendingUpdate |-> FALSE, pendingCleanup |-> FALSE,
    updateIntervals |-> 0, cleanupIntervals |-> 0 ]

\* ------------------------------------------------------------ initial store
\* A store the program has filled on earlier days and earlier today: every
\* row is made by Score.upsert from a record of the Adapter.
SeedGame(sportType, dayOffset, i, status) ==
  MockGame(sportType, (StartDay + dayOffset) * MsPerDay, i, status,
           IF status = "scheduled" THEN "scheduled" ELSE "live", Draw1)

UsedStore ==
  LET evening(d) == (StartDay + d) * MsPerDay + 20 * MsPerHour
      s1 == upsertAll({}, << SeedGame("football", 0 - 9, 0, "final"),
                            SeedGame("football", 0 - 9, 1, "live") >>, evening(0 - 9))
      s2 == upsertAll(s1, << SeedGame("football", 0 - 2, 0, "live"),
                             SeedGame("football", 0 - 2, 1, "final"),
                             SeedGame("football", 0 - 2, 2, "halftime") >>, evening(0 - 2))
      s3 == upsertAll(s2, [ i \in 1..5 |-> SeedGame("football", 0 - 1, i - 1, "final") ], evening(0 - 1))
      s4 == upsertAll(s3, [ i \in 1..6 |-> SeedGame("football", 1 + ((i - 1) \div 3), (i - 1) % 3, "scheduled") ],
                      evening(0 - 1))
      s5 == upsertAll(s4, << SeedGame("football", 0, 0, "live"),
                             SeedGame("football", 0, 1, "scheduled"),
                             SeedGame("football", 0, 2, "final") >>,
                      T0 - CACHE_TTL * MsPerSecond)
      s6 == upsertAll(s5, << SeedGame("basketball", 0, 0, "live"),
                             SeedGame("basketball", 0, 1, "final"),
                             SeedGame("basketball", 0, 2, "scheduled") >>,
                      T0 - CACHE_TTL * MsPerSecond + (MsPerSecond \div 2))
  IN  s6

\* the same store when football has been refreshed at this very instant
RefreshedStore ==
  upsertAll(UsedStore, << SeedGame("football", 0, 0, "halftime") >>, T0)

Init ==
  /\ tick = 0
  /\ store \in { {}, UsedStore, RefreshedStore }
  /\ useRealApi \in BOOLEAN
  /\ fetches = 0
  /\ last = NoOp
  /\ updater = NewUpdater
  /\ paths = [ p \in PathIds |-> IdlePath ]
  /\ liveFetchedAt = [ s \in RequestSports \cup SportSet |-> MaxLastUpdated(store, s) ]

\* ------------------------------------------------------------------ actions
\* time passes to the next instant
Tick ==
  /\ tick < MaxTicks
  /\ tick' = tick + 1
  /\ last' = NoOp
  /\ UNCHANGED <<store, useRealApi, fetches, updater, paths, liveFetchedAt>>

\* knownErrors of errorHandler: the messages it gives a status of their own
knownErrors ==
  [ message \in {"Email already registered", "Username already taken", "Invalid credentials",
                 "Account is deactivated", "User not found", "Invalid or expired token",
                 "Invalid or expired refresh token", "Refresh token has been revoked or expired",
                 "Refresh token required", "No authorization token provided",
                 "Email verification required"} |->
      CASE message \in {"Email already registered", "Username already taken"} -> 409
        [] message \in {"Account is deactivated", "Email verification required"} -> 403
        [] message = "User not found" -> 404
        [] message = "Refresh token required" -> 400
        [] OTHER -> 401 ]

\* errorHandler(err, req, res, next) for an Error with this message (not a
\* JSON text) and no `code`: status = knownErrors[err.message] || 500
errorHandler(message) ==
  [ status |-> IF message \in DOMAIN knownErrors THEN knownErrors[message] ELSE 500,
    error  |-> message ]

\* a controller of scoreController.js around a call of ScoreService: the
\* result goes out with res.json (status 200), an error goes to next(error)
\* and from there to errorHandler
controllerResponse(returned) ==
  IF returned.error = ""
    THEN [op |-> "http", route |-> returned.op, status |-> 200, error |-> "",
          calls |-> returned.calls, service |-> returned]
    ELSE [op |-> "http", route |-> returned.op, status |-> errorHandler(returned.error).status,
          error |-> errorHandler(returned.error).error,
          calls |-> returned.calls, service |-> returned]

\* what the caller gets: the service's own outcome, or over HTTP the response
Reply(http, returned) == IF http THEN controllerResponse(returned) ELSE returned

\* ScoreService.getLiveScores(sportType, forceRefresh), called directly or
\* by the controller getLiveScores (http)
ServeLiveScores(sportType, forceRefresh, http) ==
  LET t == Now(tick) IN
  IF sportType \notin validSports
    THEN /\ last' = Reply(http,
                     [op |-> "getLiveScores", sportType |-> sportType, forceRefresh |-> forceRefresh,
                      error |-> "Invalid sport type", calls |-> 0])
         /\ UNCHANGED <<tick, store, useRealApi, fetches, updater, paths, liveFetchedAt>>
    ELSE LET cacheStatus == getCacheStatus(store, sportType)
             ageMs       == cacheAgeMs(store, sportType, t)
             refresh     == needsRefresh(forceRefresh, ageMs)
         IN  /\ refresh => fetches < MaxFetches
             /\ \E apiScores \in IF refresh THEN fetchLiveScores(useRealApi, sportType, t) ELSE { << >> } :
                  LET rows == IF refresh THEN upsertAll(store, apiScores, t) ELSE store IN
                  \E liveGames \in findLive(rows, sportType),
                     upcomingGames \in findUpcoming(rows, sportType, LiveLimit, t),
                     recentGames \in findRecentlyCompleted(rows, sportType, RecentHours, LiveLimit, t) :
                    /\ store' = rows
                    /\ fetches' = IF refresh THEN fetches + 1 ELSE fetches
                    /\ last' = Reply(http,
                                [op |-> "getLiveScores", sportType |-> sportType,
                                 forceRefresh |-> forceRefresh, error |-> "",
                                 calls |-> IF refresh THEN 1 ELSE 0,
                                 fetched |-> apiScores,
                                 ageMs |-> ageMs,
                                 data |-> [ live       |-> liveGames,
                                            upcoming   |-> upcomingGames,
                                            recent     |-> recentGames,
                                            cacheAge   |-> floorSeconds(ageMs),
                                            lastUpdate |-> cacheStatus.last_update ] ])
             /\ liveFetchedAt' = IF refresh THEN [ liveFetchedAt EXCEPT ![sportType] = t ]
                                 ELSE liveFetchedAt
             /\ UNCHANGED <<tick, useRealApi, updater, paths>>

\* ScoreService.getLiveScores(sportType, forceRefresh)
GetLiveScores(sportType, forceRefresh) ==
  /\ ServeLiveScores(sportType, forceRefresh, FALSE)
  /\ last'.op = "getLiveScores"

\* GET /api/scores/:sport/live?forceRefresh=
HttpGetLiveScores(sport, forceRefresh) ==
  /\ ServeLiveScores(sport, forceRefresh, TRUE)
  /\ last'.route = "getLiveScores"

\* What can go wrong in one refreshScores call: nothing; the awaited
\* SportsAPIService.fetchLiveScores rejects; the Store rejects a write (the
\* last Score.upsert of the loop, the earlier ones having gone through).
RefreshFaults == {"none", "fetch", "store"}
FetchFailed == "Adapter failure"
StoreFault  == "Store fault"

\* mutant of refreshScores: a failure is logged and turned into a count of zero
refreshScoresSwallowing(rows, apiScores, fault, t) ==
  LET n      == Len(apiScores)
      failed == fault = "fetch" \/ (fault = "store" /\ n > 0)
  IN  [ error       |-> "",
        updateCount |-> IF failed THEN 0 ELSE n,
        rows        |-> IF fault = "fetch" THEN rows
                        ELSE IF failed THEN upsertAll(rows, SubSeq(apiScores, 1, n - 1), t)
                        ELSE upsertAll(rows, apiScores, t) ]

\* ScoreService.refreshScores(sportType) at time t from the rows `rows`, the
\* Adapter resolving with apiScores unless fault = "fetch": the error it
\* throws ("" when it returns), the count it returns and the rows it leaves
refreshScores(rows, apiScores, fault, t) ==
  LET n == Len(apiScores) IN
  IF fault = "fetch"
    THEN [ error |-> FetchFailed, updateCount |-> 0, rows |-> rows ]
  ELSE IF fault = "store" /\ n > 0
    THEN [ error |-> StoreFault, updateCount |-> n - 1,
           rows |-> upsertAll(rows, SubSeq(apiScores, 1, n - 1), t) ]
  ELSE [ error |-> "", updateCount |-> n, rows |-> upsertAll(rows, apiScores, t) ]

\* ScoreService.refreshScores(sportType), with what goes wrong in it
RefreshScores(sportType, fault) ==
  LET t == Now(tick) IN
  /\ fetches < MaxFetches
  /\ \E apiScores \in IF fault = "fetch" THEN { << >> }
                      ELSE fetchLiveScores(useRealApi, sportType, t) :
       LET r == refreshScores(store, apiScores, fault, t) IN
       /\ store' = r.rows
       /\ last' = [op |-> "refreshScores", sportType |-> sportType, error |-> r.error,
                   calls |-> 1, fault |-> fault, fetched |-> apiScores,
                   updateCount |-> r.updateCount, before |-> store]
  /\ fetches' = fetches + 1
  /\ liveFetchedAt' = IF fault = "fetch" THEN liveFetchedAt
                      ELSE [ liveFetchedAt EXCEPT ![sportType] = Now(tick) ]
  /\ UNCHANGED <<tick, useRealApi, updater, paths>>

\* mutant of nextSport: the loop ends at the first sport that fails
nextSportStopOnFailure(i, error) == IF error # "" THEN Len(sports) + 1 ELSE i + 1

\* for (const sport of sports) with the try/catch inside the loop body: the
\* sport after number i, whether or not refreshScores threw `error`
nextSport(i, error) == i + 1

\* the loop of refreshAllScores from sport number i on: the rows it leaves and
\* the entries it puts in `results`, in order; fetched[sport] is what the
\* Adapter resolves with for the sport and faults[sport] what goes wrong
RECURSIVE refreshAllFrom(_, _, _, _, _)
refreshAllFrom(i, rows, fetched, faults, t) ==
  IF i > Len(sports) THEN [ rows |-> rows, results |-> << >> ]
  ELSE LET sport == sports[i]
           r     == refreshScores(rows, fetched[sport], faults[sport], t)
           rest  == refreshAllFrom(nextSport(i, r.error), r.rows, fetched, faults, t)
       IN  [ rows    |-> rest.rows,
             results |-> << [ sport  |-> sport,
                              count  |-> IF r.error # "" THEN 0 ELSE r.updateCount,
                              caught |-> r.error ] >> \o rest.results ]

\* ScoreService.refreshAllScores() at time t
refreshAllScores(rows, fetched, faults, t) == refreshAllFrom(1, rows, fetched, faults, t)

\* The sweeps that are explored.  The games of one sweep all have one random
\* status; every sport has the same number of games, or basketball has
\* MaxGames and the others one; nothing fails, or one sport fails, or the
\* Store rejects every sport's write; the provider throws, has no game or has
\* a finished one.
SweepStatuses == {"live", "final"}
SweepCounts ==
  { [ s \in SportSet |-> n ] : n \in MockGameCounts } \cup
  { [ s \in SportSet |-> IF s = "basketball" THEN MaxGames ELSE 1 ] }
SweepFaults ==
  { [ s \in SportSet |-> "none" ],
    [ s \in SportSet |-> IF s = "football" THEN "fetch" ELSE "none" ],
    [ s \in SportSet |-> IF s = "basketball" THEN "store" ELSE "none" ],
    [ s \in SportSet |-> IF s = "hockey" THEN "fetch" ELSE "none" ],
    [ s \in SportSet |-> "store" ] }
SweepOutcomes ==
  { o \in ProviderOutcomes :
      \/ o.threw
      \/ o.errors = "" /\ (o.response = << >> \/ o.response[1].statusShort = "FT") }

\* one array of generateMockGames(sportType, t, 'live'): n games of status st
SweepSlate(sportType, t, n, st) ==
  [ i \in 1..n |-> MockGame(sportType, t, i - 1, st, "live", Draw2) ]

\* what fetchLiveScores(sportType) resolves with in such a sweep
SweepFetch(real, sportType, t, n, st, outcome) ==
  LET api == fetchNFLGamesFromAPI(outcome) IN
  IF real /\ sportType = "football" /\ ~api.threw THEN api.games
  ELSE SweepSlate(sportType, t, n, st)

\* ScoreService.refreshAllScores()
RefreshAllScores(st, counts, faults, outcome) ==
  LET t       == Now(tick)
      fetched == [ s \in SportSet |->
                     IF faults[s] = "fetch" THEN << >>
                     ELSE SweepFetch(useRealApi, s, t, counts[s], st, outcome) ]
      r       == refreshAllScores(store, fetched, faults, t)
  IN  /\ fetches < MaxFetches
      /\ store' = r.rows
      /\ fetches' = fetches + Len(r.results)
      /\ last' = [op |-> "refreshAllScores", error |-> "", calls |-> Len(r.results),
                  faults |-> faults, fetched |-> fetched, results |-> r.results]
      /\ liveFetchedAt' = [ s \in DOMAIN liveFetchedAt |->
                            IF s \in SportSet /\ faults[s] # "fetch" THEN t ELSE liveFetchedAt[s] ]
      /\ UNCHANGED <<tick, useRealApi, updater, paths>>

\* ScoreService.getGameById(gameId), called directly or by the controller
\* getGameById (http)
ServeGameById(gameId, http) ==
  LET t      == Now(tick)
      found  == findByGameId(store, gameId)
      search == found = {} \/ \E g \in found : isStale(g.last_updated, t)
  IN  /\ search => fetches < MaxFetches
      /\ \E apiGame \in IF search THEN fetchGameById(useRealApi, gameId, t) ELSE { {} } :
           LET rows == IF apiGame # {} THEN UNION { upsert(store, a, t) : a \in apiGame } ELSE store
               game == IF apiGame # {} THEN { upsertReturning(store, a, t) : a \in apiGame } ELSE found
           IN  /\ store' = rows
               /\ last' = Reply(http,
                           [op |-> "getGameById", gameId |-> gameId,
                            error |-> IF game = {} THEN "Game not found" ELSE "",
                            calls |-> IF search THEN 1 ELSE 0,
                            found |-> found, fetched |-> apiGame, game |-> game])
      /\ fetches' = IF search THEN fetches + 1 ELSE fetches
      /\ UNCHANGED <<tick, useRealApi, updater, paths, liveFetchedAt>>

\* ScoreService.getGameById(gameId)
GetGameById(gameId) ==
  /\ ServeGameById(gameId, FALSE)
  /\ last'.op = "getGameById"

\* GET /api/scores/game/:gameId
HttpGetGameById(gameId) ==
  /\ ServeGameById(gameId, TRUE)
  /\ last'.route = "getGameById"

\* mutant of rangeTooLong: a span of exactly seven days is refused too
rangeTooLongInclusive(startDate, endDate) ==
  (endDate - startDate) >= MaxRangeDays * MsPerDay

\* daysDiff > 7, daysDiff being (endDate - startDate) / (1000 * 60 * 60 * 24)
rangeTooLong(startDate, endDate) ==
  (endDate - startDate) > MaxRangeDays * MsPerDay

\* the Date pairs callers pass: midnight two days ago, that plus exactly
\* seven days, that plus seven days and a millisecond, noon of today
RangeDates ==
  { (StartDay - 2) * MsPerDay,
    (StartDay - 2 + MaxRangeDays) * MsPerDay,
    (StartDay - 2 + MaxRangeDays) * MsPerDay + 1,
    StartDay * MsPerDay + 12 * MsPerHour }

\* ScoreService.getScoresByDateRange(sportType, startDate, endDate)
GetScoresByDateRange(sportType, startDate, endDate) ==
  LET call == [op |-> "getScoresByDateRange", sportType |-> sportType,
               startDate |-> startDate, endDate |-> endDate, calls |-> 0]
  IN  /\ IF startDate > endDate
            THEN last' = call @@ [error |-> "Start date must be before end date", scores |-> << >>]
          ELSE IF rangeTooLong(startDate, endDate)
            THEN last' = call @@ [error |-> "Date range cannot exceed 7 days", scores |-> << >>]
          ELSE \E scores \in findByDateRange(store, sportType, startDate, endDate) :
                 last' = call @@ [error |-> "", scores |-> scores]
      /\ UNCHANGED <<tick, store, useRealApi, fetches, updater, paths, liveFetchedAt>>

\* what callers of the Adapter ask for
UpcomingDays == {1, 3}
RawCodes == StatusCodes \cup {"ZZ", ""}

\* SportsAPIService.fetchLiveScores(sportType), the provider answering `outcome`
FetchLiveScores(sportType, outcome) ==
  /\ \E games \in fetchLiveScoresFrom(useRealApi, sportType, Now(tick), outcome) :
       last' = [op |-> "fetchLiveScores", sportType |-> sportType, real |-> useRealApi,
                outcome |-> outcome, error |-> "", calls |-> 1, result |-> games]
  /\ UNCHANGED <<tick, store, useRealApi, fetches, updater, paths, liveFetchedAt>>

\* SportsAPIService.fetchUpcomingGames(sportType, days), the provider answering `outcome`
FetchUpcomingGames(sportType, days, outcome) ==
  /\ \E games \in fetchUpcomingGamesFrom(useRealApi, sportType, days, Now(tick), outcome) :
       last' = [op |-> "fetchUpcomingGames", sportType |-> sportType, days |-> days,
                real |-> useRealApi, outcome |-> outcome, error |-> "", calls |-> 1,
                result |-> games]
  /\ UNCHANGED <<tick, store, useRealApi, fetches, updater, paths, liveFetchedAt>>

\* SportsAPIService.fetchGameById(gameId), the provider answering `outcome`;
\* the result is the sequence of the games found, empty for null
FetchGameById(gameId, outcome) ==
  /\ \E game \in fetchGameByIdFrom(useRealApi, gameId, Now(tick), outcome) :
       last' = [op |-> "fetchGameById", gameId |-> gameId, real |-> useRealApi,
                outcome |-> outcome, error |-> "", calls |-> 1,
                result |-> IF game = {} THEN << >> ELSE << CHOOSE g \in game : TRUE >>]
  /\ UNCHANGED <<tick, store, useRealApi, fetches, updater, paths, liveFetchedAt>>

\* SportsAPIService._transformNFLGame(apiGame) for a game with raw status `code`
TransformNFLGame(code) ==
  /\ last' = [op |-> "transformNFLGame", code |-> code, error |-> "", calls |-> 0,
              result |-> << transformNFLGame(ApiGame(code, 3, 0, 13)) >>]
  /\ UNCHANGED <<tick, store, useRealApi, fetches, updater, paths, liveFetchedAt>>

\* ScoreService.cleanupOldScores(days)
CleanupOldScores(days) ==
  LET t       == Now(tick)
      removed == deleteOldRows(store, days, t)
  IN  /\ store' = store \ removed
      /\ last' = [op |-> "cleanupOldScores", days |-> days, error |-> "", calls |-> 0,
                  removed |-> removed, deleted |-> Cardinality(removed)]
      /\ UNCHANGED <<tick, useRealApi, fetches, updater, paths, liveFetchedAt>>

\* Score.upsert(scoreData), called on its own
StoreUpsert(scoreData) ==
  LET t == Now(tick) IN
  /\ store' = upsert(store, scoreData, t)
  /\ last' = [op |-> "upsert", scoreData |-> scoreData, error |-> "", calls |-> 0,
              existing |-> findByGameId(store, scoreData.gameId),
              row |-> upsertReturning(store, scoreData, t)]
  /\ UNCHANGED <<tick, useRealApi, fetches, updater, paths, liveFetchedAt>>

\* the records Score.upsert is given: what the Adapter makes for today's
\* first game and for the provider's game 401
UpsertInputs ==
  { MockGame("football", Now(0), 0, "scheduled", "live", Draw1),
    MockGame("football", Now(0), 0, "live", "live", Draw2),
    MockGame("football", Now(0), 0, "final", "live", Draw1) }
  \cup { transformNFLGame(ApiGame("Q2", 3, 0, 13)), transformNFLGame(ApiGame("FT", 10, 7, 15)) }

\* ScoreService.getUpcomingGames(sportType, days), the provider answering `outcome`
GetUpcomingGames(sportType, days, outcome) ==
  LET t == Now(tick) IN
  /\ fetches < MaxFetches
  /\ \E apiGames \in fetchUpcomingGamesFrom(useRealApi, sportType, days, t, outcome) :
       LET rows == upsertAll(store, apiGames, t) IN
       \E games \in findUpcoming(rows, sportType, days * 5, t) :
         /\ store' = rows
         /\ last' = [op |-> "getUpcomingGames", sportType |-> sportType, days |-> days,
                     error |-> "", calls |-> 1, fetched |-> apiGames, games |-> games]
  /\ fetches' = fetches + 1
  /\ UNCHANGED <<tick, useRealApi, updater, paths, liveFetchedAt>>

\* ------------------------------------------- refreshes that run concurrently
\* The arrays fetchLiveScores(sportType) may resolve with for path p.  The
\* two paths get different random draws, so that their records for one game
\* differ in teams and scores as well as in status.
RaceSlates(p, real, sportType, t) ==
  LET draw   == IF p = "request" THEN Draw1 ELSE Draw2
      mock   == { [ i \in 1..n |-> MockGame(sportType, t, i - 1, st, "live", draw) ] :
                   n \in MockGameCounts, st \in {"live", "halftime", "final"} }
      answer == { fetchNFLGamesFromAPI(o) : o \in ProviderOutcomes }
  IN  IF real /\ sportType = "football"
        THEN { a.games : a \in { x \in answer : ~x.threw } } \cup mock
        ELSE mock

\* refreshScores(sportType) of path p up to its first Score.upsert: the
\* awaited fetchLiveScores has resolved; with nothing to upsert it returns
BeginRefresh(p, sportType) ==
  LET t == Now(tick) IN
  /\ ~paths[p].active /\ paths[p].done = 0 /\ paths[p].sportType = ""
  /\ \E slate \in RaceSlates(p, useRealApi, sportType, t) :
       /\ paths' = [ paths EXCEPT ![p] = [active |-> Len(slate) > 0, sportType |-> sportType,
                                          slate |-> slate, done |-> 0] ]
       /\ last' = [op |-> "beginRefresh", path |-> p, sportType |-> sportType,
                   error |-> "", calls |-> 1, fetched |-> slate]
  /\ fetches' = fetches + 1
  /\ liveFetchedAt' = [ liveFetchedAt EXCEPT ![sportType] = t ]
  /\ UNCHANGED <<tick, store, useRealApi, updater>>

\* the loop of refreshScores in path p from one await to the next: one
\* Score.upsert, a single INSERT ... ON CONFLICT DO UPDATE statement, runs;
\* after the last one refreshScores returns
UpsertNext(p) ==
  LET t         == Now(tick)
      scoreData == paths[p].slate[paths[p].done + 1]
  IN  /\ paths[p].active
      /\ store' = upsert(store, scoreData, t)
      /\ paths' = [ paths EXCEPT ![p].done = @ + 1,
                                 ![p].active = paths[p].done + 1 < Len(paths[p].slate) ]
      /\ last' = [op |-> "pathUpsert", path |-> p, scoreData |-> scoreData,
                  error |-> "", calls |-> 0,
                  existing |-> findByGameId(store, scoreData.gameId)]
      /\ UNCHANGED <<tick, useRealApi, fetches, updater, liveFetchedAt>>

\* --------------------------------------------------------- ScoreUpdater job
\* mutant of startedUpdater: start() schedules no daily cleanup
startedUpdaterNoCleanupTimer(u) ==
  [ u EXCEPT !.isRunning = TRUE, !.updateTimer = TRUE, !.cleanupTimer = FALSE,
             !.updateIntervals = @ + 1,
             !.pendingUpdate = TRUE, !.pendingCleanup = TRUE ]

\* the fields after the body of start(): isRunning set, both intervals
\* scheduled, and the calls updateScores() and cleanup() begun
startedUpdater(u) ==
  [ u EXCEPT !.isRunning = TRUE, !.updateTimer = TRUE, !.cleanupTimer = TRUE,
             !.updateIntervals = @ + 1, !.cleanupIntervals = @ + 1,
             !.pendingUpdate = TRUE, !.pendingCleanup = TRUE ]

\* mutant of start: no test of isRunning
startUnguarded(u) == startedUpdater(u)

\* start(): if (this.isRunning) return; else the body
start(u) == IF u.isRunning THEN u ELSE startedUpdater(u)

\* mutant of stop: the update interval is left scheduled
stopKeepsUpdateInterval(u) ==
  IF ~u.isRunning THEN u
  ELSE [ u EXCEPT !.isRunning = FALSE, !.updateTimer = FALSE, !.cleanupTimer = FALSE,
                  !.cleanupIntervals = IF u.cleanupTimer THEN @ - 1 ELSE @ ]

\* stop(): if (!this.isRunning) return; else clearInterval of each handle
\* held, the handles set to null, isRunning false
stop(u) ==
  IF ~u.isRunning THEN u
  ELSE [ u EXCEPT !.isRunning = FALSE, !.updateTimer = FALSE, !.cleanupTimer = FALSE,
                  !.updateIntervals = IF u.updateTimer THEN @ - 1 ELSE @,
                  !.cleanupIntervals = IF u.cleanupTimer THEN @ - 1 ELSE @ ]

\* ScoreUpdater.start()
Start ==
  /\ updater' = start(updater)
  /\ last' = [op |-> "start", error |-> "", calls |-> 0, wasRunning |-> updater.isRunning]
  /\ UNCHANGED <<tick, store, useRealApi, fetches, paths, liveFetchedAt>>

\* ScoreUpdater.stop(); calls already begun run to their end
Stop ==
  /\ updater' = stop(updater)
  /\ last' = [op |-> "stop", error |-> "", calls |-> 0, wasRunning |-> updater.isRunning]
  /\ UNCHANGED <<tick, store, useRealApi, fetches, paths, liveFetchedAt>>

\* the interval of UPDATE_INTERVAL elapses: its callback calls updateScores()
UpdateTimerFires ==
  /\ updater.updateIntervals > 0
  /\ updater' = [ updater EXCEPT !.pendingUpdate = TRUE ]
  /\ last' = [op |-> "updateTimer", error |-> "", calls |-> 0]
  /\ UNCHANGED <<tick, store, useRealApi, fetches, paths, liveFetchedAt>>

\* the interval of CLEANUP_INTERVAL elapses: its callback calls cleanup()
CleanupTimerFires ==
  /\ updater.cleanupIntervals > 0
  /\ updater' = [ updater EXCEPT !.pendingCleanup = TRUE ]
  /\ last' = [op |-> "cleanupTimer", error |-> "", calls |-> 0]
  /\ UNCHANGED <<tick, store, useRealApi, fetches, paths, liveFetchedAt>>

\* ScoreUpdater.cleanup() runs to its end, the Store being available:
\* ScoreService.cleanupOldScores(7)
RunCleanup ==
  LET removed == deleteOldRows(store, RetentionDays, Now(tick)) IN
  /\ updater.pendingCleanup
  /\ store' = store \ removed
  /\ updater' = [ updater EXCEPT !.pendingCleanup = FALSE ]
  /\ last' = [op |-> "cleanup", days |-> RetentionDays, error |-> "", calls |-> 0,
              removed |-> removed, deleted |-> Cardinality(removed)]
  /\ UNCHANGED <<tick, useRealApi, fetches, paths, liveFetchedAt>>

\* ScoreUpdater.cleanup() runs to its end while the Store rejects the
\* DELETE: the catch logs the error
CleanupFails ==
  /\ updater.pendingCleanup
  /\ updater' = [ updater EXCEPT !.pendingCleanup = FALSE ]
  /\ last' = [op |-> "cleanup", days |-> RetentionDays, error |-> "", calls |-> 0,
              removed |-> {}, deleted |-> 0, caught |-> StoreFault]
  /\ UNCHANGED <<tick, store, useRealApi, fetches, paths, liveFetchedAt>>

\* the fields after the try block of updateScores(): threw tells whether the
\* awaited refreshAllScores() rejected
updatedAfterCycle(u, threw, t) ==
  IF threw THEN u
  ELSE [ u EXCEPT !.lastUpdate = t, !.updateCount = @ + 1 ]

\* the sweeps of the job that are explored: nothing fails, one sport fails,
\* or every sport fails
JobFaults == { f \in SweepFaults : f["football"] = f["hockey"] }

\* ScoreUpdater.updateScores() runs to its end, begun by start() or by the
\* interval (timerDriven) or awaited by forceUpdate().  refreshAllScores()
\* catches the error of every sport, so it never rejects.
UpdateScores(counts, faults, outcome, timerDriven) ==
  LET t       == Now(tick)
      fetched == [ s \in SportSet |->
                     IF faults[s] = "fetch" THEN << >>
                     ELSE SweepFetch(useRealApi, s, t, counts[s], "live", outcome) ]
      r       == refreshAllScores(store, fetched, faults, t)
      u       == updatedAfterCycle(updater, FALSE, t)
  IN  /\ fetches < MaxFetches
      /\ store' = r.rows
      /\ fetches' = fetches + Len(r.results)
      /\ updater' = [ u EXCEPT !.pendingUpdate = IF timerDriven THEN FALSE ELSE @ ]
      /\ last' = [op |-> "updateScores", error |-> "", calls |-> Len(r.results),
                  timerDriven |-> timerDriven, faults |-> faults, fetched |-> fetched,
                  results |-> r.results, before |-> updater]
      /\ liveFetchedAt' = [ s \in DOMAIN liveFetchedAt |->
                            IF s \in SportSet /\ faults[s] # "fetch" THEN t ELSE liveFetchedAt[s] ]
      /\ UNCHANGED <<tick, useRealApi, paths>>

\* an updateScores() begun by start() or by the interval runs to its end
RunUpdate(counts, faults, outcome) ==
  /\ updater.pendingUpdate
  /\ UpdateScores(counts, faults, outcome, TRUE)

\* ScoreUpdater.forceUpdate(): await this.updateScores()
ForceUpdate(counts, faults, outcome) ==
  /\ UpdateScores(counts, faults, outcome, FALSE)
  /\ last'.timerDriven = FALSE

\* ScoreUpdater.getStatus()
GetStatus ==
  /\ last' = [op |-> "getStatus", error |-> "", calls |-> 0,
              status |-> [ isRunning   |-> updater.isRunning,
                           lastUpdate  |-> updater.lastUpdate,
                           updateCount |-> updater.updateCount ]]
  /\ UNCHANGED <<tick, store, useRealApi, fetches, updater, paths, liveFetchedAt>>

\* records of games finished more than a week ago, as the Adapter makes them
\* for an old date; other callers of the Orchestrator write them while the job runs
OldFinals ==
  { SeedGame("football", 0 - 9, 0, "final"), SeedGame("basketball", 0 - 8, 1, "final") }

\* the live-score reads of the Orchestrator
Next ==
  \/ Tick
  \/ \E sportType \in RequestSports, forceRefresh \in BOOLEAN : GetLiveScores(sportType, forceRefresh)

Spec == Init /\ [][Next]_vars

\* the Score Store on its own
StoreNext ==
  \/ Tick
  \/ \E scoreData \in UpsertInputs : StoreUpsert(scoreData)
  \/ \E days \in CleanupDays : CleanupOldScores(days)

SpecStore == Init /\ [][StoreNext]_vars

\* the single-game lookups of the Orchestrator
GameNext ==
  \/ Tick
  \/ \E gameId \in RequestIds : GetGameById(gameId)

SpecGame == Init /\ [][GameNext]_vars

\* the date-range reads of the Orchestrator
RangeNext ==
  \/ Tick
  \/ \E sportType \in RequestSports, startDate \in RangeDates, endDate \in RangeDates :
       GetScoresByDateRange(sportType, startDate, endDate)

SpecRange == Init /\ [][RangeNext]_vars

\* the refreshes of one sport
RefreshNext ==
  \/ Tick
  \/ \E sportType \in RequestSports, fault \in RefreshFaults : RefreshScores(sportType, fault)

SpecRefresh == Init /\ [][RefreshNext]_vars

\* the background job's cleanup beside the writes of other callers
UpdaterNext ==
  \/ Tick
  \/ Start
  \/ Stop
  \/ CleanupTimerFires
  \/ RunCleanup
  \/ \E scoreData \in OldFinals : StoreUpsert(scoreData)

\* setInterval fires again and again while the timer is set, and a cleanup()
\* that has begun runs to its end
SpecUpdater ==
  Init /\ [][UpdaterNext]_vars /\ WF_vars(CleanupTimerFires) /\ WF_vars(RunCleanup)

\* the background job with its update cycles
JobNext ==
  \/ Tick
  \/ Start
  \/ Stop
  \/ UpdateTimerFires
  \/ CleanupTimerFires
  \/ \E counts \in SweepCounts, faults \in JobFaults, outcome \in SweepOutcomes :
       RunUpdate(counts, faults, outcome)
  \/ \E counts \in SweepCounts, faults \in JobFaults, outcome \in SweepOutcomes :
       ForceUpdate(counts, faults, outcome)
  \/ RunCleanup
  \/ CleanupFails
  \/ GetStatus

\* setInterval fires each interval again and again while it is scheduled
SpecJob ==
  Init /\ [][JobNext]_vars /\ WF_vars(UpdateTimerFires) /\ WF_vars(CleanupTimerFires)

\* the reads of the Orchestrator that go through the Adapter
ReadsNext ==
  \/ Tick
  \/ \E sportType \in RequestSports : GetLiveScores(sportType, FALSE)
  \/ \E gameId \in RequestIds : GetGameById(gameId)
  \/ \E sportType \in RequestSports, outcome \in SweepOutcomes :
       GetUpcomingGames(sportType, 1, outcome)

SpecReads == Init /\ [][ReadsNext]_vars

\* two refreshes of football in flight together
RaceNext ==
  \/ Tick
  \/ \E p \in PathIds : BeginRefresh(p, "football")
  \/ \E p \in PathIds : UpsertNext(p)

SpecRace == Init /\ [][RaceNext]_vars

\* the two reads at the HTTP boundary
HttpNext ==
  \/ Tick
  \/ \E sport \in RequestSports, forceRefresh \in BOOLEAN : HttpGetLiveScores(sport, forceRefresh)
  \/ \E gameId \in RequestIds : HttpGetGameById(gameId)

SpecHttp == Init /\ [][HttpNext]_vars

\* the refreshes of all sports
SweepNext ==
  \/ Tick
  \/ \E st \in SweepStatuses, counts \in SweepCounts, faults \in SweepFaults,
        outcome \in SweepOutcomes : RefreshAllScores(st, counts, faults, outcome)

SpecSweep == Init /\ [][SweepNext]_vars

\* the Provider Adapter on its own
AdapterNext ==
  \/ Tick
  \/ \E sportType \in RequestSports, outcome \in ProviderOutcomes : FetchLiveScores(sportType, outcome)
  \/ \E sportType \in RequestSports, days \in UpcomingDays, outcome \in ProviderOutcomes :
       FetchUpcomingGames(sportType, days, outcome)
  \/ \E gameId \in RequestIds : \E outcome \in ProviderOutcomesFor(gameId) : FetchGameById(gameId, outcome)
  \/ \E code \in RawCodes : TransformNFLGame(code)

\* the Adapter neither reads nor writes the Store: it is taken on an empty one
AdapterInit == Init /\ store = {}

SpecAdapter == AdapterInit /\ [][AdapterNext]_vars

TypeOK ==
  /\ tick \in 0..MaxTicks
  /\ fetches \in 0 .. MaxFetches + Len(sports) - 1
  /\ useRealApi \in BOOLEAN

\* ------------------------------------------------------------------ claims
\* the rows of the store that carry a game_id
RowsOf(gameId) == { r \in store : r.game_id = gameId }

\* C1: the store never holds two records with one gameId; after an upsert of
\* a gameId that was already stored there is exactly one record for it, with
\* the homeScore, awayScore and status of that upsert and with the gameId and
\* createdAt the record had before.
C1_IdempotentUpsert ==
  /\ \A r1, r2 \in store : r1.game_id = r2.game_id => r1 = r2
  /\ (last.op = "upsert" /\ last.existing # {}) =>
       /\ Cardinality(RowsOf(last.scoreData.gameId)) = 1
       /\ \A r \in RowsOf(last.scoreData.gameId) :
            /\ r.home_score = last.scoreData.homeScore
            /\ r.away_score = last.scoreData.awayScore
            /\ r.status = last.scoreData.status
            /\ \A e \in last.existing : r.game_id = e.game_id /\ r.created_at = e.created_at

\* a second upsert of a stored game, later than the insert, with other scores and another status
C1_Witness ==
  /\ last.op = "upsert"
  /\ \E e \in last.existing :
       /\ e.home_score # last.scoreData.homeScore
       /\ e.status # last.scoreData.status
       /\ e.created_at < Now(tick)
       /\ e.created_at >= T0

\* C2: an upsert of a stored gameId leaves homeTeam, awayTeam, scheduledAt,
\* sportType, venue, the team logos and createdAt as they were, whatever the
\* incoming record carries; scores, status, period, timeRemaining, startedAt,
\* completedAt and metadata become the incoming ones and lastUpdated the time
\* of the upsert.
C2_UpsertFrame ==
  (last.op = "upsert" /\ last.existing # {}) =>
    \A r \in RowsOf(last.scoreData.gameId), e \in last.existing :
      /\ r.home_team = e.home_team
      /\ r.away_team = e.away_team
      /\ r.scheduled_at = e.scheduled_at
      /\ r.sport_type = e.sport_type
      /\ r.venue = e.venue
      /\ r.home_team_logo = e.home_team_logo
      /\ r.away_team_logo = e.away_team_logo
      /\ r.created_at = e.created_at
      /\ r.period = last.scoreData.period
      /\ r.time_remaining = last.scoreData.timeRemaining
      /\ r.started_at = last.scoreData.startedAt
      /\ r.completed_at = last.scoreData.completedAt
      /\ r.metadata = last.scoreData.metadata
      /\ r.last_updated = Now(tick)

\* the incoming record names other teams, or another kick-off time, than the stored one
C2_Witness ==
  /\ last.op = "upsert"
  /\ \E e \in last.existing :
       /\ e.last_updated < Now(tick)
       /\ \/ /\ e.home_team # last.scoreData.homeTeam
             /\ e.away_team # last.scoreData.awayTeam
             /\ e.venue # last.scoreData.venue
             /\ e.home_team_logo # last.scoreData.homeTeamLogo
          \/ e.scheduled_at # last.scoreData.scheduledAt

\* a getLiveScores call has just returned a response
Served == last.op = "getLiveScores" /\ last.error = ""

TTLms == CACHE_TTL * MsPerSecond

\* every record the Adapter returned is in the store as this call wrote it
AllUpserted ==
  \A i \in DOMAIN last.fetched :
    \E r \in store :
      /\ r.game_id = last.fetched[i].gameId
      /\ r.home_score = last.fetched[i].homeScore
      /\ r.away_score = last.fetched[i].awayScore
      /\ r.status = last.fetched[i].status
      /\ r.last_updated = Now(tick)

\* the three lists of the response are reads of the store as it is now
ReadsOfStore ==
  /\ last.data.live \in findLive(store, last.sportType)
  /\ last.data.upcoming \in findUpcoming(store, last.sportType, LiveLimit, Now(tick))
  /\ last.data.recent \in findRecentlyCompleted(store, last.sportType, RecentHours, LiveLimit, Now(tick))

\* C3: a getLiveScores(sport, false) that finds the sport's cache age below
\* the TTL calls the Adapter not at all and leaves the store as it was.
C3_FreshServedFromStore ==
  [][ (/\ last'.op = "getLiveScores"
       /\ last'.error = ""
       /\ ~last'.forceRefresh
       /\ last'.ageMs < TTLms)
      => (last'.calls = 0 /\ fetches' = fetches /\ store' = store) ]_vars

\* an unforced call answered from a non-empty store half a second after its last write
C3_Witness ==
  /\ Served
  /\ ~last.forceRefresh
  /\ last.ageMs > 0
  /\ last.ageMs < TTLms
  /\ last.calls = 0
  /\ Len(last.data.live) > 0

\* C4 as stated: an unforced call at cache age >= TTL (exactly TTL included),
\* or with no record of the sport, makes exactly one fetch and upserts every
\* record of it before the reads of the response.
C4_AsStated ==
  (Served /\ ~last.forceRefresh /\ last.ageMs >= TTLms) =>
    (last.calls = 1 /\ AllUpserted /\ ReadsOfStore)

\* C4, amended: an unforced call at cache age strictly above the TTL, or with
\* no record of the sport, makes exactly one fetch and upserts every record
\* of it before the reads of the response; at age exactly TTL it makes none.
C4_StaleFetchesOnce ==
  (Served /\ ~last.forceRefresh) =>
    /\ last.ageMs > TTLms => (last.calls = 1 /\ AllUpserted /\ ReadsOfStore)
    /\ last.ageMs = TTLms => last.calls = 0

\* an unforced call that found records half a second over the TTL and fetched a slate
C4_Witness ==
  /\ Served
  /\ ~last.forceRefresh
  /\ last.ageMs > TTLms
  /\ last.ageMs < Infinity
  /\ last.calls = 1
  /\ Len(last.fetched) > 0

\* C5: a forced getLiveScores makes one fetch and upserts its result at every cache age.
C5_ForcedAlwaysFetches ==
  (Served /\ last.forceRefresh) => (last.calls = 1 /\ AllUpserted /\ ReadsOfStore)

\* a forced call less than a second after the sport's last refresh
C5_Witness ==
  /\ Served
  /\ last.forceRefresh
  /\ last.ageMs < MsPerSecond
  /\ last.calls = 1
  /\ Len(last.fetched) > 0

\* C6 as stated: after a refresh the response carries a cacheAge of about
\* zero and the lastUpdate the store has after the refresh.
C6_AsStated ==
  (Served /\ last.calls = 1 /\ Len(last.fetched) > 0) =>
    /\ last.data.cacheAge <= 1
    /\ last.data.lastUpdate = getCacheStatus(store, last.sportType).last_update

\* C7 as stated: once an unforced call has refreshed, whatever the Adapter
\* returned, the same call made again at once is answered without a fetch
\* (the store it finds is fresh) and with the same three lists (they are
\* reads of the store it finds).
C7_AsStated ==
  (Served /\ ~last.forceRefresh /\ last.calls = 1) =>
    /\ ~needsRefresh(FALSE, cacheAgeMs(store, last.sportType, Now(tick)))
    /\ ReadsOfStore

C9_InvalidSportRejected ==
  [][ (/\ last'.op = "getLiveScores"
       /\ last'.sportType \notin {"football", "basketball", "baseball", "soccer", "hockey", "other"})
      => (/\ last'.error = "Invalid sport type"
          /\ last'.calls = 0
          /\ fetches' = fetches
          /\ store' = store) ]_vars

\* a request for cricket refused while the store holds rows
C9_Witness ==
  /\ last.op = "getLiveScores"
  /\ last.sportType = "cricket"
  /\ last.error = "Invalid sport type"
  /\ store # {}

\* C10: getGameById returns a stored record not older than the TTL without
\* an Adapter call; with no record or an older one it makes exactly one
\* fetchGameById, and a game found there is upserted and returned; it fails
\* with 'Game not found' exactly when there is no stored record and the
\* Adapter finds none; a stale record is returned when the Adapter finds none.
C10_GetGameById ==
  last.op = "getGameById" =>
    LET fresh == /\ last.found # {}
                 /\ \A g \in last.found : Now(tick) - g.last_updated <= TTLms
    IN  /\ fresh => (last.calls = 0 /\ last.game = last.found /\ last.error = "")
        /\ ~fresh => last.calls = 1
        /\ (~fresh /\ last.fetched # {}) =>
             /\ last.error = ""
             /\ last.game # {}
             /\ last.game \subseteq store
             /\ \A g \in last.game : /\ g.last_updated = Now(tick)
                                     /\ \E a \in last.fetched : /\ g.game_id = a.gameId
                                                                /\ g.status = a.status
                                                                /\ g.home_score = a.homeScore
        /\ (last.error = "Game not found") <=> (last.found = {} /\ last.fetched = {})
        /\ (last.found # {} /\ last.fetched = {}) => last.game = last.found

\* a stale stored record returned after the Adapter found no game
C10_Witness ==
  /\ last.op = "getGameById"
  /\ last.found # {}
  /\ \E g \in last.found : Now(tick) - g.last_updated > TTLms
  /\ last.calls = 1
  /\ last.fetched = {}
  /\ last.game = last.found
  /\ last.error = ""

\* C11: getScoresByDateRange fails when start > end and when end - start is
\* more than 7 days; for start <= end and a span of at most 7 days (start =
\* end and exactly 7 days included) it returns the sport's rows with
\* start <= scheduledAt <= end, calls no Adapter and writes nothing.
C11_DateRange ==
  [][ last'.op = "getScoresByDateRange" =>
        LET startDate == last'.startDate
            endDate   == last'.endDate
            scores    == last'.scores
        IN  /\ startDate > endDate => last'.error # ""
            /\ endDate - startDate > 7 * MsPerDay => last'.error # ""
            /\ (startDate <= endDate /\ endDate - startDate <= 7 * MsPerDay) =>
                 /\ last'.error = ""
                 /\ { scores[i] : i \in DOMAIN scores } =
                      { r \in store : /\ r.sport_type = last'.sportType
                                      /\ startDate <= r.scheduled_at
                                      /\ r.scheduled_at <= endDate }
                 /\ \A i, j \in DOMAIN scores : scores[i] = scores[j] => i = j
            /\ last'.calls = 0
            /\ fetches' = fetches
            /\ store' = store ]_vars

\* a span of exactly seven days answered with rows, while the store holds
\* rows of the sport outside the span and rows of another sport inside it
C11_Witness ==
  /\ last.op = "getScoresByDateRange"
  /\ last.error = ""
  /\ last.endDate - last.startDate = 7 * MsPerDay
  /\ Len(last.scores) > 0
  /\ \E r \in store : r.sport_type = last.sportType /\ r.scheduled_at < last.startDate
  /\ \E r \in store : /\ r.sport_type # last.sportType
                      /\ r.scheduled_at >= last.startDate
                      /\ r.scheduled_at <= last.endDate

\* the final rows completed more than `days` days before now
ExpiredFinals(days) ==
  { r \in store : /\ r.status = "final"
                  /\ r.completed_at # NoTime
                  /\ r.completed_at < Now(tick) - days * MsPerDay }

\* C12: cleanupOldScores(days) removes exactly the final rows whose
\* completedAt is earlier than now - days, returns their number and leaves
\* every other row as it was; a row that is not final is never removed.
C12_CleanupRemovesOldFinals ==
  [][ last'.op = "cleanupOldScores" =>
        /\ store' = store \ ExpiredFinals(last'.days)
        /\ last'.deleted = Cardinality(ExpiredFinals(last'.days))
        /\ last'.error = ""
        /\ \A r \in store : r.status # "final" => r \in store' ]_vars

\* a sweep that removed a row and left in place a live row scheduled more
\* than `days` days ago and a final row completed less than `days` days ago
C12_Witness ==
  /\ last.op = "cleanupOldScores"
  /\ last.deleted > 0
  /\ \E r \in store : r.status = "live" /\ r.scheduled_at < Now(tick) - last.days * MsPerDay
  /\ \E r \in store : r.status = "final" /\ r.completed_at >= Now(tick) - last.days * MsPerDay

\* C13: while the job is running (and the Store available), final records
\* completed more than 7 days ago do not stay: a cleanup sweep, the one of
\* start() or one of the 24-hourly ones, eventually deletes them.
C13_ExpiredFinalsEventuallyDeleted ==
  (updater.isRunning /\ ExpiredFinals(RetentionDays) # {})
    ~> (~updater.isRunning \/ ExpiredFinals(RetentionDays) = {})

\* a sweep of the running job has deleted records and left the others
C13_Witness ==
  /\ last.op = "cleanup"
  /\ last.deleted > 0
  /\ updater.isRunning
  /\ store # {}
  /\ ExpiredFinals(RetentionDays) = {}

\* C14: refreshScores(sport) makes one fetchLiveScores call whatever the age
\* of the cache, upserts every record returned and returns their number; when
\* the fetch fails the error is thrown to the caller, no count is returned
\* and the store is as it was.
C14_RefreshScores ==
  [][ last'.op = "refreshScores" =>
        /\ last'.calls = 1
        /\ fetches' = fetches + 1
        /\ last'.fault = "fetch" => (last'.error # "" /\ store' = store)
        /\ last'.fault = "none" =>
             /\ last'.error = ""
             /\ last'.updateCount = Len(last'.fetched)
             /\ AllUpserted' ]_vars

\* a refresh of a sport whose rows were written less than the TTL ago, which
\* fetched and upserted a slate all the same
C14_Witness ==
  /\ last.op = "refreshScores"
  /\ last.fault = "none"
  /\ last.updateCount > 0
  /\ \E r \in last.before :
       /\ r.sport_type = last.sportType
       /\ Now(tick) - r.last_updated < TTLms

\* the records fetched for a sport are in the store as this sweep wrote them
SweepUpserted(sport) ==
  \A j \in DOMAIN last.fetched[sport] :
    \E r \in store :
      /\ r.game_id = last.fetched[sport][j].gameId
      /\ r.status = last.fetched[sport][j].status
      /\ r.last_updated = Now(tick)

\* refreshScores threw for the sport during the sweep
SweepThrew(sport) ==
  \/ last.faults[sport] = "fetch"
  \/ last.faults[sport] = "store" /\ Len(last.fetched[sport]) > 0

\* C15: refreshAllScores calls refreshScores once for each of football,
\* basketball, baseball, soccer, hockey, in that order; a sport whose refresh
\* throws is mapped to 0, every other sport is refreshed all the same and
\* mapped to its own count, and refreshAllScores does not throw.
C15_RefreshAllScores ==
  last.op = "refreshAllScores" =>
    /\ last.error = ""
    /\ last.calls = 5
    /\ [ i \in DOMAIN last.results |-> last.results[i].sport ] =
         <<"football", "basketball", "baseball", "soccer", "hockey">>
    /\ \A i \in DOMAIN last.results :
         LET e == last.results[i] IN
         /\ SweepThrew(e.sport) => e.count = 0
         /\ ~SweepThrew(e.sport) =>
              /\ e.count = Len(last.fetched[e.sport])
              /\ SweepUpserted(e.sport)

\* a sweep in which the first sport failed and the last one was refreshed
C15_Witness ==
  /\ last.op = "refreshAllScores"
  /\ last.faults["football"] = "fetch"
  /\ last.results[1].count = 0
  /\ last.results[5].sport = "hockey"
  /\ last.results[5].count > 0
  /\ \E r \in store : r.sport_type = "hockey" /\ r.last_updated = Now(tick)

\* the Store rejected a write during the operation that has just returned
StoreFaulted ==
  CASE last.op = "refreshScores" -> last.fault = "store" /\ Len(last.fetched) > 0
    [] last.op = "refreshAllScores" ->
         \E s \in SportSet : last.faults[s] = "store" /\ Len(last.fetched[s]) > 0
    [] OTHER -> FALSE

\* C16 as stated: an operation of the Orchestrator during which the Store
\* failed ends with an error for its caller, never with a result.
C16_AsStated == StoreFaulted => last.error # ""

\* an operation of the Adapter has just returned
AdapterReturned == last.op \in {"fetchLiveScores", "fetchUpcomingGames", "fetchGameById"}

\* a synthetic record: its gameId is sport_date_index
IsSynthetic(g) == Len(g.gameId) = 3

\* the fields of a GameRecord
GameRecordFields ==
  {"gameId", "sportType", "homeTeam", "awayTeam", "homeTeamLogo", "awayTeamLogo",
   "homeScore", "awayScore", "status", "period", "timeRemaining",
   "scheduledAt", "startedAt", "completedAt", "venue", "metadata"}

\* the call of the provider failed: it threw or answered with a plan restriction
ProviderCallThrew ==
  last.real /\ (last.outcome.threw \/ last.outcome.errors = PlanError)

\* C17: with the live provider enabled, when its call throws (network error,
\* timeout, HTTP error, plan restriction) fetchLiveScores throws nothing and
\* returns a non-empty array of synthetic games of GameRecord shape.
C17_LiveFallsBackToSynthetic ==
  (last.op = "fetchLiveScores" /\ last.sportType = "football" /\ ProviderCallThrew) =>
    /\ last.error = ""
    /\ Len(last.result) > 0
    /\ \A i \in DOMAIN last.result :
         /\ IsSynthetic(last.result[i])
         /\ DOMAIN last.result[i] = GameRecordFields
         /\ last.result[i].sportType = last.sportType

\* football scores asked of an enabled provider that answered with a plan restriction
C17_Witness ==
  /\ last.op = "fetchLiveScores"
  /\ last.sportType = "football"
  /\ last.real
  /\ last.outcome.errors = PlanError
  /\ Len(last.result) > 0

\* C18 as stated: whatever the operation and whatever the provider's
\* trouble, the Adapter returns synthetic records: no error, no empty array, no null.
C18_AsStated ==
  (/\ AdapterReturned
   /\ \/ ~last.real
      \/ last.outcome.threw
      \/ last.outcome.errors # "") =>
    /\ last.error = ""
    /\ Len(last.result) > 0
    /\ \A i \in DOMAIN last.result : IsSynthetic(last.result[i])

\* the six canonical statuses
CanonicalStatuses == {"scheduled", "live", "halftime", "final", "postponed", "cancelled"}

Emitted ==
  IF AdapterReturned \/ last.op = "transformNFLGame"
    THEN { last.result[i] : i \in DOMAIN last.result }
    ELSE {}

\* C20 as stated: startedAt only with live or halftime, completedAt only with final.
C20_AsStated ==
  \A g \in Emitted :
    /\ g.startedAt # NoTime => g.status \in {"live", "halftime"}
    /\ g.completedAt # NoTime => g.status = "final"

\* C20, amended: startedAt is non-null only if status is live, halftime or
\* final; completedAt is non-null only if status is final.
C20_TimestampsFollowStatus ==
  \A g \in Emitted :
    /\ g.startedAt # NoTime => g.status \in {"live", "halftime", "final"}
    /\ g.completedAt # NoTime => g.status = "final"

\* the Adapter has emitted a final record from the provider, with both timestamps
C20_Witness ==
  \E g \in Emitted :
    /\ ~IsSynthetic(g)
    /\ g.status = "final"
    /\ g.startedAt # NoTime
    /\ g.completedAt # NoTime

\* a status that may follow status `old` of the same game
ForwardConsistent(old, new) ==
  /\ old \in {"live", "halftime"} => new # "scheduled"
  /\ old = "final" => new \notin {"scheduled", "live", "halftime"}

\* C21 as stated: the status the Adapter emits for a game never goes back:
\* a game stored from an earlier fetch as live or halftime is not emitted as
\* scheduled by the next fetch, and one stored as final is not emitted as
\* scheduled, live or halftime.
C21_AsStated ==
  last.op = "refreshScores" =>
    \A i \in DOMAIN last.fetched :
      \A r \in last.before :
        r.game_id = last.fetched[i].gameId =>
          ForwardConsistent(r.status, last.fetched[i].status)

\* C22 as stated: every record fetchUpcomingGames returns is scheduled with
\* both scores 0, in mock mode and with the provider enabled.
C22_AsStated ==
  last.op = "fetchUpcomingGames" =>
    \A i \in DOMAIN last.result :
      /\ last.result[i].status = "scheduled"
      /\ last.result[i].homeScore = 0
      /\ last.result[i].awayScore = 0

\* C23 as stated: whatever sport names and game ids the callers supply,
\* every row of the store has one of the six sport types.
C23_AsStated ==
  \A r \in store :
    r.sport_type \in {"football", "basketball", "baseball", "soccer", "hockey", "other"}

\* C24: the ScoreUpdater is running exactly when both timers are set, and
\* no more than one interval of each kind is scheduled; start() while
\* running changes nothing and begins nothing; stop() clears both timers and
\* ends running; stop() while stopped changes nothing; start() leaves it running.
C24_TimersFollowRunning ==
  /\ [] /\ updater.isRunning <=> (updater.updateTimer /\ updater.cleanupTimer)
        /\ updater.updateTimer <=> updater.cleanupTimer
        /\ updater.updateIntervals = (IF updater.updateTimer THEN 1 ELSE 0)
        /\ updater.cleanupIntervals = (IF updater.cleanupTimer THEN 1 ELSE 0)
  /\ [][ /\ (last'.op = "start" /\ updater.isRunning) =>
               (updater' = updater /\ store' = store /\ fetches' = fetches)
         /\ last'.op = "start" => updater'.isRunning
         /\ last'.op = "stop" =>
              /\ ~updater'.isRunning
              /\ ~updater'.updateTimer /\ ~updater'.cleanupTimer
              /\ updater'.updateIntervals = 0 /\ updater'.cleanupIntervals = 0
         /\ (last'.op = "stop" /\ ~updater.isRunning) => updater' = updater ]_vars

\* start() has been called on a running updater whose first cycle is over
C24_Witness ==
  /\ last.op = "start"
  /\ last.wasRunning
  /\ updater.isRunning
  /\ updater.updateCount > 0
  /\ ~updater.pendingUpdate

\* the timers of the updater and its running flag
TimerState(u) ==
  <<u.isRunning, u.updateTimer, u.cleanupTimer, u.updateIntervals, u.cleanupIntervals>>

\* C25: start() of a stopped updater begins a refresh-all cycle and a cleanup
\* sweep at once; while it runs the update interval and the cleanup interval
\* go on beginning further ones; a cycle or sweep that ends, failed or not,
\* leaves the timers and the running flag alone; an interval begins a cycle
\* only while the updater is running.
C25_CyclesFollowTimers ==
  /\ [][ /\ (last'.op = "start" /\ ~updater.isRunning) =>
               (updater'.pendingUpdate /\ updater'.pendingCleanup)
         /\ last'.op \in {"updateScores", "cleanup"} =>
               TimerState(updater') = TimerState(updater)
         /\ last'.op \in {"updateTimer", "cleanupTimer"} => updater.isRunning ]_vars
  /\ updater.isRunning ~> (~updater.isRunning \/ last.op = "updateTimer")
  /\ updater.isRunning ~> (~updater.isRunning \/ last.op = "cleanupTimer")

\* the interval begins a further cycle after one has completed and the
\* sweep of start() is over
C25_Witness ==
  /\ last.op = "updateTimer"
  /\ updater.isRunning
  /\ updater.pendingUpdate
  /\ updater.updateCount > 0
  /\ ~updater.pendingCleanup

\* C26 as stated: an update cycle that completes adds one to updateCount
\* and sets lastUpdate to the time of completion only if it succeeded; a
\* cycle in which the refresh of every sport threw leaves both as they were.
C26_AsStated ==
  last.op = "updateScores" =>
    IF \A s \in SportSet : SweepThrew(s)
      THEN /\ updater.updateCount = last.before.updateCount
           /\ updater.lastUpdate = last.before.lastUpdate
      ELSE /\ updater.updateCount = last.before.updateCount + 1
           /\ updater.lastUpdate = Now(tick)

\* C28 as stated: over HTTP an invalid sport type is answered with 400 and a
\* game that neither the cache nor the provider has with 404; neither with 500.
C28_AsStated ==
  last.op = "http" =>
    /\ (last.route = "getLiveScores" /\ last.service.error = "Invalid sport type") =>
         last.status = 400
    /\ (last.route = "getGameById" /\ last.service.error = "Game not found") =>
         last.status = 404

\* C29 as stated: the game fetchGameById(id) returns, and the row
\* getGameById(id) returns and stores, carry the id that was asked for.
C29_AsStated ==
  /\ (last.op = "fetchGameById" /\ Len(last.result) > 0) =>
       last.result[1].gameId = last.gameId
  /\ last.op = "getGameById" =>
       \A g \in last.game : g.game_id = last.gameId /\ g \in store

\* the columns an upsert sets are those of the record g
FromOneUpsert(r, g) ==
  /\ r.home_score = OrZero(g.homeScore)
  /\ r.away_score = OrZero(g.awayScore)
  /\ r.status = g.status
  /\ r.period = OrNullText(g.period)
  /\ r.time_remaining = OrNullText(g.timeRemaining)
  /\ r.started_at = OrNullTime(g.startedAt)
  /\ r.completed_at = OrNullTime(g.completedAt)
  /\ r.metadata = g.metadata

\* both refresh paths have returned
BothReturned ==
  \A p \in PathIds : ~paths[p].active /\ paths[p].sportType # ""

\* C27: when two refreshes interleave at their awaits and upsert the same
\* gameId, the store holds one row for it, and its scores, status, period,
\* times and metadata are those of one single upsert: right after an upsert
\* those of that upsert, and in the end those of one of the two paths.
C27_LastWriterWins ==
  /\ \A r1, r2 \in store : r1.game_id = r2.game_id => r1 = r2
  /\ last.op = "pathUpsert" =>
       /\ Cardinality(RowsOf(last.scoreData.gameId)) = 1
       /\ \A r \in RowsOf(last.scoreData.gameId) : FromOneUpsert(r, last.scoreData)
  /\ BothReturned =>
       \A i \in DOMAIN paths["request"].slate, j \in DOMAIN paths["job"].slate :
         LET a == paths["request"].slate[i]
             b == paths["job"].slate[j]
         IN  a.gameId = b.gameId =>
               /\ Cardinality(RowsOf(a.gameId)) = 1
               /\ \A r \in RowsOf(a.gameId) : FromOneUpsert(r, a) \/ FromOneUpsert(r, b)

\* both paths fetched before either wrote; they upserted one game with
\* different scores, status and period, and the row is the request's
C27_Witness ==
  /\ BothReturned
  /\ last.op = "pathUpsert"
  /\ last.path = "request"
  /\ last.existing # {}
  /\ \E i \in DOMAIN paths["request"].slate, j \in DOMAIN paths["job"].slate :
       LET a == paths["request"].slate[i]
           b == paths["job"].slate[j]
       IN  /\ a.gameId = b.gameId
           /\ a.status # b.status
           /\ a.homeScore # b.homeScore
           /\ a.period # b.period
           /\ \E r \in RowsOf(a.gameId) : FromOneUpsert(r, a) /\ r.created_at < r.last_updated

\* C30 as stated: an unforced getLiveScores answered from the store alone
\* comes within CACHE_TTL of a completed fetchLiveScores for the sport.
C30_AsStated ==
  (Served /\ ~last.forceRefresh /\ last.calls = 0) =>
    /\ liveFetchedAt[last.sportType] # NoTime
    /\ Now(tick) - liveFetchedAt[last.sportType] <= TTLms

====
